---- MODULE Spec2Model ----
(***************************************************************************)
(* A model of the RAG assistant's session store (dialog_controller), its   *)
(* user database (storage/user_db), the bot handlers that drive them       *)
(* (interface/handlers), the prompt builder and the context retriever      *)
(* (memory_manager), the text chunker (storage/document_loader) and the    *)
(* access token of the GigaChat client (ai_gigachat_processor).            *)
(*                                                                         *)
(* Time is a count of clock ticks; TicksPerSec ticks make one second, so   *)
(* a datetime is a natural number and a timedelta a difference of two.     *)
(* Every datetime.now() of one synchronous operation reads the same tick.  *)
(* Russian string literals are transliterated letter for letter, so every  *)
(* literal keeps the length it has in the source.                          *)
(***************************************************************************)
EXTENDS Integers, Sequences, FiniteSets, TLC

VARIABLES
    now,          \* the wall clock, in ticks
    sessions,     \* SessionManager.sessions: an insertion-ordered dict, as a sequence of UserContext
    sessionFile,  \* the content of SessionManager.persist_file
    users,        \* UserDatabase.users: an insertion-ordered dict, as a sequence of user records
    userFile,     \* the content of UserDatabase.storage_path
    lastRet,      \* per user_id, the object the caller got from its latest get_or_create_session (0: none)
    added,        \* per user_id, the add_message calls made on the object now stored for it
    lastOp,       \* the latest operation, its argument and what it returned
    pb,           \* the inputs and latest result of a call of the prompt builder,
                  \* the retriever or the chunker; the user_id a caller passes
    tasks,        \* the handler coroutines in flight, oldest first, each with its position
    gigachat      \* GigaChatClient._access_token and _token_expires_at

vars == <<now, sessions, sessionFile, users, userFile, lastRet, added, lastOp, pb, tasks, gigachat>>

sessionVars == <<now, sessions, sessionFile, users, userFile, lastRet, added, lastOp, tasks, gigachat>>

-----------------------------------------------------------------------------
(* Bounds of the model *)

SessionTimeout == 1
ExtraTime == 1
MaxMessages == 2
MaxHistory == 2
MaxUserMessages == 2
MaxDocs == 3
MaxBudget == 150
MaxHistoryLen == 12
MaxIndexSize == 3
MaxNResults == 3
RetrieverNResults == 2
MaxTextLen == 5
MaxChunkSize == 3
MaxLongLen == 12
MaxLongChunk == 5

UserIds == {"1", "2"}
\* The users who write to the bot; the others have sessions a previous run
\* saved, or sessions a client of the store opens for them
Askers == {"1"}
Queries == {"q"}
Answers == {"a"}
UserName == "n"

\* The sub-second readings of the clock
SubSecond == {0, 1}
TicksPerSec == Cardinality(SubSecond)

TimeoutTicks == SessionTimeout * TicksPerSec
MaxTime == TimeoutTicks + ExtraTime
Times == 0..MaxTime

-----------------------------------------------------------------------------
(* datetime.isoformat / datetime.fromisoformat.  An ISO string is modelled  *)
(* by its parts: <<seconds>> when the sub-second part is zero (isoformat    *)
(* omits it), <<seconds, fraction>> otherwise.                              *)

isoformat_seconds(t) == [kind |-> "iso", parts |-> <<t \div TicksPerSec>>]

isoformat(t) ==
    [kind |-> "iso",
     parts |-> IF t % TicksPerSec = 0
               THEN <<t \div TicksPerSec>>
               ELSE <<t \div TicksPerSec, t % TicksPerSec>>]

\* What a JSON entry may hold in place of an ISO string: nothing (the key is
\* missing, .get returns None) or a string fromisoformat rejects.
MissingValue == [kind |-> "missing", parts |-> <<>>]
BadIso == [kind |-> "unparsable", parts |-> <<>>]

IsIsoString(s) == s.kind = "iso"

fromisoformat(s) ==
    IF Len(s.parts) = 1
    THEN s.parts[1] * TicksPerSec
    ELSE s.parts[1] * TicksPerSec + s.parts[2]

-----------------------------------------------------------------------------
(* Insertion-ordered dicts keyed by a field *)

HasKey(d, k) == \E i \in 1..Len(d) : d[i].user_id = k

KeyIndex(d, k) == CHOOSE i \in 1..Len(d) : d[i].user_id = k

GetKey(d, k) == d[KeyIndex(d, k)]

DelKey(d, k) == SelectSeq(d, LAMBDA e : e.user_id # k)

SetKey(d, v) ==
    IF HasKey(d, v.user_id)
    THEN [d EXCEPT ![KeyIndex(d, v.user_id)] = v]
    ELSE Append(d, v)

Keys(d) == [i \in 1..Len(d) |-> d[i].user_id]

KeySet(d) == {d[i].user_id : i \in 1..Len(d)}

-----------------------------------------------------------------------------
(* A user_id as a caller passes it: Telegram's integer, or a string.  The   *)
(* session manager turns it into the key with str().                        *)

IntId(n) == [type |-> "int", int |-> n, str |-> ""]
StrId(s) == [type |-> "str", int |-> 0, str |-> s]

str(x) == IF x.type = "int" THEN ToString(x.int) ELSE x.str

-----------------------------------------------------------------------------
(* Object identity.  A new UserContext gets an identity no live object and  *)
(* no reference still held by a caller has.                                 *)

OidsOf(d) == {d[i].oid : i \in 1..Len(d)}

FreshOid(taken) == CHOOSE n \in 1..(Cardinality(taken) + 1) :
    n \notin taken /\ \A m \in 1..(n - 1) : m \in taken

Held == {lastRet[u] : u \in UserIds} \ {0}

-----------------------------------------------------------------------------
(* UserContext *)

UserContext(user_id, oid, t) ==
    [user_id |-> user_id, oid |-> oid, created_at |-> t, last_activity |-> t,
     conversation_history |-> <<>>, metadata |-> <<>>, state |-> "active",
     message_count |-> 0]

Message(role, content, t) ==
    [role |-> role, content |-> content, timestamp |-> isoformat(t)]

\* A touch that leaves the time of the last activity as it was
keep_last_activity(ctx, t) == ctx

update_last_activity(ctx, t) == [ctx EXCEPT !.last_activity = t]

add_message(ctx, role, content, t) ==
    update_last_activity(
        [ctx EXCEPT !.conversation_history = Append(@, Message(role, content, t)),
                    !.message_count = @ + 1], t)

clear_resets_count(ctx) ==
    [ctx EXCEPT !.conversation_history = <<>>, !.message_count = 0]

clear_conversation_history(ctx) == [ctx EXCEPT !.conversation_history = <<>>]

is_expired_at_timeout(ctx, timeout_ticks, t) == t - ctx.last_activity >= timeout_ticks

is_expired(ctx, timeout_ticks, t) == t - ctx.last_activity > timeout_ticks

Expired(ctx) == is_expired(ctx, TimeoutTicks, now)

-----------------------------------------------------------------------------
(* Files.  A file is absent, holds text that is not JSON, or holds a JSON   *)
(* object: the sequence of its entries in file order.                       *)

FileAbsent == [kind |-> "absent", data |-> <<>>]
FileGarbage == [kind |-> "garbage", data |-> <<>>]
FileJson(entries) == [kind |-> "json", data |-> entries]

SessionEntry(user_id, history, last_activity) ==
    [user_id |-> user_id, mapping |-> TRUE, has_history |-> TRUE,
     conversation_history |-> history, last_activity |-> last_activity]

\* An entry without the conversation_history key
SessionEntryNoHistory(user_id, last_activity) ==
    [user_id |-> user_id, mapping |-> TRUE, has_history |-> FALSE,
     conversation_history |-> <<>>, last_activity |-> last_activity]

\* An entry whose value is no JSON object (a string, a number, a list, null)
NotAMapping(user_id) ==
    [user_id |-> user_id, mapping |-> FALSE, has_history |-> FALSE,
     conversation_history |-> <<>>, last_activity |-> MissingValue]

-----------------------------------------------------------------------------
(* SessionManager *)

SavedEntryTruncated(ctx) ==
    SessionEntry(ctx.user_id, ctx.conversation_history, isoformat_seconds(ctx.last_activity))

SavedEntry(ctx) ==
    SessionEntry(ctx.user_id, ctx.conversation_history, isoformat(ctx.last_activity))

_save_sessions(ss) == FileJson([i \in 1..Len(ss) |-> SavedEntry(ss[i])])

\* One iteration of the loading loop: the entry's UserContext, when no
\* statement of the loop body raises for it.
EntryLoads(e) == e.mapping /\ IsIsoString(e.last_activity)

LoadedContext(e, oid, t) ==
    [UserContext(e.user_id, oid, t) EXCEPT
        !.conversation_history =
            IF e.has_history THEN e.conversation_history ELSE <<>>,
        !.last_activity = fromisoformat(e.last_activity)]

RECURSIVE LoadEntries(_, _, _, _)
LoadEntries(entries, i, acc, t) ==
    IF i > Len(entries) THEN acc
    ELSE IF ~EntryLoads(entries[i]) THEN acc
    ELSE LoadEntries(entries, i + 1,
                     SetKey(acc, LoadedContext(entries[i], FreshOid(OidsOf(acc)), t)), t)

_load_sessions(file, t) ==
    IF file.kind = "json" THEN LoadEntries(file.data, 1, <<>>, t) ELSE <<>>

get_or_create_never_expires(ss, user_id, t, taken) ==
    IF HasKey(ss, user_id)
    THEN LET session == update_last_activity(GetKey(ss, user_id), t)
         IN  [sessions |-> SetKey(ss, session), session |-> session, branch |-> "existing"]
    ELSE LET session == UserContext(user_id, FreshOid(taken \cup OidsOf(ss)), t)
         IN  [sessions |-> Append(ss, session), session |-> session, branch |-> "absent"]

get_or_create_session(ss, user_id, t, taken) ==
    IF HasKey(ss, user_id) /\ ~is_expired(GetKey(ss, user_id), TimeoutTicks, t)
    THEN LET session == update_last_activity(GetKey(ss, user_id), t)
         IN  [sessions |-> SetKey(ss, session), session |-> session, branch |-> "existing"]
    ELSE LET session == UserContext(user_id, FreshOid(taken \cup OidsOf(ss)), t)
         IN  [sessions |-> Append(DelKey(ss, user_id), session), session |-> session,
              branch |-> IF HasKey(ss, user_id) THEN "expired" ELSE "absent"]

\* A lookup that does not find a session once it has expired
get_session_unless_expired(ss, user_id) ==
    IF HasKey(ss, user_id) /\ ~Expired(GetKey(ss, user_id))
    THEN [found |-> TRUE, session |-> GetKey(ss, user_id)]
    ELSE [found |-> FALSE, session |-> <<>>]

\* None, or the stored object
get_session(ss, user_id) ==
    IF HasKey(ss, user_id)
    THEN [found |-> TRUE, session |-> GetKey(ss, user_id)]
    ELSE [found |-> FALSE, session |-> <<>>]

\* A removal that empties the map
delete_every_session(ss, user_id) == <<>>

delete_session(ss, user_id) == DelKey(ss, user_id)

cleanup_expired_sessions(ss, t) ==
    SelectSeq(ss, LAMBDA ctx : ~is_expired(ctx, TimeoutTicks, t))

-----------------------------------------------------------------------------
(* UserDatabase *)

UserRecord(user_id, name, t) ==
    [user_id |-> user_id, mapping |-> TRUE, id |-> user_id, name |-> name,
     created_at |-> isoformat(t), last_active |-> isoformat(t),
     message_count |-> 0, preferences |-> <<>>, metadata |-> <<>>]

UserNotAMapping(user_id) ==
    [user_id |-> user_id, mapping |-> FALSE, id |-> "", name |-> "",
     created_at |-> MissingValue, last_active |-> MissingValue,
     message_count |-> 0, preferences |-> <<>>, metadata |-> <<>>]

_load_users(file) == IF file.kind = "json" THEN file.data ELSE <<>>

_save_users(us) == FileJson(us)

\* [users, file, raised]: the dict and the file afterwards, and whether the
\* call raised (item assignment on an entry that is no mapping).
create_or_update_user(us, file, user_id, name, t) ==
    IF ~HasKey(us, user_id)
    THEN LET new == Append(us, UserRecord(user_id, name, t))
         IN  [users |-> new, file |-> _save_users(new), raised |-> FALSE]
    ELSE IF ~GetKey(us, user_id).mapping
    THEN [users |-> us, file |-> file, raised |-> TRUE]
    ELSE LET new == SetKey(us, [GetKey(us, user_id) EXCEPT
                                   !.name = name, !.last_active = isoformat(t)])
         IN  [users |-> new, file |-> _save_users(new), raised |-> FALSE]

increment_message_count(us, file, user_id, t) ==
    IF ~HasKey(us, user_id)
    THEN [users |-> us, file |-> file, raised |-> FALSE]
    ELSE IF ~GetKey(us, user_id).mapping
    THEN [users |-> us, file |-> file, raised |-> TRUE]
    ELSE LET new == SetKey(us, [GetKey(us, user_id) EXCEPT
                                   !.message_count = @ + 1, !.last_active = isoformat(t)])
         IN  [users |-> new, file |-> _save_users(new), raised |-> FALSE]

get_user_count(us) == Len(us)

-----------------------------------------------------------------------------
(* The collaborators of a turn.  The completion service returns an answer   *)
(* or raises; the retriever returns the documents it found, the empty list  *)
(* when the index fails (ContextRetriever.retrieve catches every exception).*)
(* A distance and a relevance are counted in hundredths, so                 *)
(* relevance = 1 - distance is 100 - distance.                              *)

Doc(text, source, relevance) == [text |-> text, source |-> source, relevance |-> relevance]

\* What the completion service does with one request: it answers or it fails
GenerateOutcomes == {[raised |-> FALSE, answer |-> a] : a \in Answers}
                        \cup {[raised |-> TRUE, answer |-> ""]}

\* A client that answers with the empty string where the service failed
generate_response_swallowing(completion) ==
    [raised |-> FALSE, answer |-> IF completion.raised THEN "" ELSE completion.answer]

\* OpenAIClient / GigaChatClient.generate_response: one request; the answer
\* is returned, a failure is logged and raised again.
generate_response(completion) ==
    IF completion.raised
    THEN [raised |-> TRUE, answer |-> ""]
    ELSE [raised |-> FALSE, answer |-> completion.answer]

\* ResponseGenerator.generate: the messages are handed to the client once;
\* a failure of the client is not recovered, it reaches the caller.
generate(query, context_documents, conversation_history, completion) ==
    LET r == generate_response(completion)
    IN  [raised |-> r.raised, answer |-> r.answer, calls |-> 1]

\* What collection.query returns for one match
Match(text, source, distance) == [text |-> text, source |-> source, distance |-> distance]

\* VectorDatabase.search: the embedding call or the index may fail, and then
\* search raises; otherwise the index answers with its n_results best
\* matches, best first, and it rejects a request for no results.
search(index, fails, n_results) ==
    IF fails \/ n_results <= 0
    THEN [raised |-> TRUE, matches |-> <<>>]
    ELSE [raised |-> FALSE,
          matches |-> SubSeq(index, 1, IF n_results < Len(index) THEN n_results ELSE Len(index))]

RetrievedDocument(m) ==
    [text |-> m.text, source |-> m.source, type |-> "unknown", chunk_id |-> 0,
     relevance |-> 100 - m.distance, distance |-> m.distance]

\* An n_results argument: None (omitted) or a number
NoneArg == [given |-> FALSE, value |-> 0]
Given(n) == [given |-> TRUE, value |-> n]

\* n_results or self.n_results
OrDefault(arg, default) == IF arg.given /\ arg.value # 0 THEN arg.value ELSE default

retrieve(index, fails, n_results, self_n_results) ==
    LET results == search(index, fails, OrDefault(n_results, self_n_results))
    IN  IF results.raised THEN <<>>
        ELSE [i \in 1..Len(results.matches) |-> RetrievedDocument(results.matches[i])]

RECURSIVE Filtered(_, _)
Filtered(documents, relevance_threshold) ==
    IF documents = <<>> THEN <<>>
    ELSE (IF Head(documents).relevance >= relevance_threshold THEN <<Head(documents)>> ELSE <<>>)
            \o Filtered(Tail(documents), relevance_threshold)

retrieve_above_threshold(index, fails, relevance_threshold, n_results, self_n_results) ==
    LET documents == retrieve(index, fails, n_results, self_n_results)
    IN  SelectSeq(documents, LAMBDA doc : doc.relevance > relevance_threshold)

retrieve_with_threshold(index, fails, relevance_threshold, n_results, self_n_results) ==
    Filtered(retrieve(index, fails, n_results, self_n_results), relevance_threshold)

\* A source section is written even when no document was found
get_sources_or_unknown(documents) ==
    IF documents = <<>> THEN {"unknown"}
    ELSE {documents[i].source : i \in 1..Len(documents)}

\* ContextRetriever.get_sources: the distinct sources, in the order of a set
get_sources(documents) == {documents[i].source : i \in 1..Len(documents)}

\* The index as a turn may find it
TurnIndexes == {<<>>, <<Match("t", "s", 10)>>}

\* What the bot sends to the user.  The text of an answer is the answer
\* followed, when there are sources, by the sources section: a header and
\* one line per source.
Apology == [kind |-> "apology", answer |-> "", sources |-> {}]
FullResponse(answer, sources) == [kind |-> "answer", answer |-> answer, sources |-> sources]

StripTimestamps(history) ==
    [i \in 1..Len(history) |-> [role |-> history[i].role, content |-> history[i].content]]

LastN(seq, n) == SubSeq(seq, Len(seq) - n + 1, Len(seq))

\* Python's seq[-n:] for n >= 0: the last n entries, and the whole list when
\* n = 0 (-0 is 0) or n >= len(seq).
SliceFromMinus(seq, n) ==
    IF n = 0 \/ n >= Len(seq) THEN seq ELSE LastN(seq, n)

get_conversation_history(ctx, max_messages, include_timestamps) ==
    LET history == IF max_messages # 0
                   THEN SliceFromMinus(ctx.conversation_history, max_messages)
                   ELSE ctx.conversation_history
    IN  IF include_timestamps THEN history ELSE StripTimestamps(history)

HandlerHistoryLimit == 10

-----------------------------------------------------------------------------
(* The state after construction *)

PbIdle == [op |-> "none"]

\* An access token as the OAuth server issued it: the server honours it
\* until expires_at, the instant its response reports (when it reports one)
NoneToken == [kind |-> "none", reports_expiry |-> FALSE, expires_at |-> 0]
Token(reports_expiry, expires_at) ==
    [kind |-> "token", reports_expiry |-> reports_expiry, expires_at |-> expires_at]

\* GigaChatClient.__init__: no token yet
NoToken == [access_token |-> NoneToken, token_expires_at |-> 0]

GoodEntry(u) ==
    SessionEntry(u, <<Message("user", "q", 0), Message("assistant", "a", 0)>>, isoformat(0))

BadEntries(u) ==
    {SessionEntry(u, <<>>, MissingValue), SessionEntry(u, <<>>, BadIso), NotAMapping(u)}

\* Files a previous run left, and files damaged since
InitSessionFiles ==
    {FileAbsent, FileGarbage, FileJson(<<>>),
     FileJson(<<GoodEntry("1")>>),
     FileJson(<<SessionEntryNoHistory("1", isoformat(0))>>),
     FileJson(<<GoodEntry("2"), SessionEntry("1", <<>>, isoformat(0))>>)}
        \cup {FileJson(<<b>>) : b \in BadEntries("1")}
        \cup {FileJson(<<GoodEntry("1"), b>>) : b \in BadEntries("2")}
        \cup {FileJson(<<b, GoodEntry("1")>>) : b \in BadEntries("2")}

InitUserFiles ==
    {FileAbsent, FileGarbage, FileJson(<<UserRecord("1", UserName, 0)>>),
     FileJson(<<UserNotAMapping("1")>>)}

NoRet == [u \in UserIds |-> 0]

Boot == [op |-> "init", user |-> "", result |-> <<>>]

SessionManagerInit(file, t) ==
    /\ sessionFile = file
    /\ sessions = _load_sessions(file, t)
    /\ lastRet = NoRet
    /\ added = [u \in UserIds |-> 0]

UserDatabaseInit(file) ==
    /\ userFile = file
    /\ users = _load_users(file)

-----------------------------------------------------------------------------
(* Operations of the session store, called one at a time *)

Op(op, user, result) == [op |-> op, user |-> user, result |-> result]

Tick ==
    /\ now < MaxTime
    /\ now' = now + 1
    /\ lastOp' = Op("tick", "", <<>>)
    /\ UNCHANGED <<sessions, sessionFile, users, userFile, lastRet, added, pb, tasks, gigachat>>

\* The clock passes the session timeout in one stride
Outlast ==
    /\ now + TimeoutTicks + 1 <= MaxTime
    /\ now' = now + TimeoutTicks + 1
    /\ lastOp' = Op("tick", "", <<>>)
    /\ UNCHANGED <<sessions, sessionFile, users, userFile, lastRet, added, pb, tasks, gigachat>>

GetOrCreateSession(u) ==
    LET r == get_or_create_session(sessions, u, now, Held)
    IN  /\ sessions' = r.sessions
        /\ lastRet' = [lastRet EXCEPT ![u] = r.session.oid]
        /\ added' = IF r.branch = "existing" THEN added ELSE [added EXCEPT ![u] = 0]
        /\ lastOp' = Op("get_or_create_session", u,
                        [oid |-> r.session.oid, message_count |-> r.session.message_count,
                         history |-> r.session.conversation_history,
                         branch |-> r.branch, previous |-> lastRet[u]])
        /\ UNCHANGED <<now, sessionFile, users, userFile, pb, tasks, gigachat>>

GetSession(u) ==
    /\ lastOp' = Op("get_session", u, get_session(sessions, u))
    /\ UNCHANGED <<now, sessions, sessionFile, users, userFile, lastRet, added, pb, tasks, gigachat>>

DeleteSession(u) ==
    /\ sessions' = delete_session(sessions, u)
    /\ added' = [added EXCEPT ![u] = 0]
    /\ lastOp' = Op("delete_session", u, <<>>)
    /\ UNCHANGED <<now, sessionFile, users, userFile, lastRet, pb, tasks, gigachat>>

ForgetRemoved(ss) == [u \in UserIds |-> IF HasKey(ss, u) THEN added[u] ELSE 0]

CleanupExpiredSessions ==
    /\ sessions' = cleanup_expired_sessions(sessions, now)
    /\ added' = ForgetRemoved(sessions')
    /\ lastOp' = Op("cleanup_expired_sessions", "",
                    [value |-> <<>>, removed |-> Len(sessions) - Len(sessions')])
    /\ UNCHANGED <<now, sessionFile, users, userFile, lastRet, pb, tasks, gigachat>>

GetActiveSessionCount ==
    /\ sessions' = cleanup_expired_sessions(sessions, now)
    /\ added' = ForgetRemoved(sessions')
    /\ lastOp' = Op("get_active_session_count", "",
                    [value |-> Len(sessions'), removed |-> Len(sessions) - Len(sessions')])
    /\ UNCHANGED <<now, sessionFile, users, userFile, lastRet, pb, tasks, gigachat>>

GetAllUserIds ==
    /\ sessions' = cleanup_expired_sessions(sessions, now)
    /\ added' = ForgetRemoved(sessions')
    /\ lastOp' = Op("get_all_user_ids", "",
                    [value |-> Keys(sessions'), removed |-> Len(sessions) - Len(sessions')])
    /\ UNCHANGED <<now, sessionFile, users, userFile, lastRet, pb, tasks, gigachat>>

\* session.add_message on the object the store holds for u
AddMessage(u, role, content) ==
    /\ HasKey(sessions, u)
    /\ GetKey(sessions, u).message_count < MaxMessages
    /\ Len(GetKey(sessions, u).conversation_history) < MaxHistory
    /\ sessions' = SetKey(sessions, add_message(GetKey(sessions, u), role, content, now))
    /\ added' = [added EXCEPT ![u] = @ + 1]
    /\ lastOp' = Op("add_message", u, <<>>)
    /\ UNCHANGED <<now, sessionFile, users, userFile, lastRet, pb, tasks, gigachat>>

ClearConversationHistory(u) ==
    /\ HasKey(sessions, u)
    /\ sessions' = SetKey(sessions, clear_conversation_history(GetKey(sessions, u)))
    /\ lastOp' = Op("clear_conversation_history", u, <<>>)
    /\ UNCHANGED <<now, sessionFile, users, userFile, lastRet, added, pb, tasks, gigachat>>

Save ==
    /\ sessionFile' = _save_sessions(sessions)
    /\ lastOp' = Op("save", "", <<>>)
    /\ UNCHANGED <<now, sessions, users, userFile, lastRet, added, pb, tasks, gigachat>>

\* session.get_conversation_history on the object the store holds for u
ReadConversationHistory(u, max_messages, include_timestamps) ==
    /\ HasKey(sessions, u)
    /\ lastOp' = Op("get_conversation_history", u,
                    get_conversation_history(GetKey(sessions, u), max_messages,
                                             include_timestamps))
    /\ UNCHANGED <<now, sessions, sessionFile, users, userFile, lastRet, added, pb, tasks, gigachat>>

\* The process ends and starts again: a fresh SessionManager and a fresh
\* UserDatabase are constructed on the files the old ones left.
Restart ==
    /\ sessions' = _load_sessions(sessionFile, now)
    /\ users' = _load_users(userFile)
    /\ lastRet' = NoRet
    /\ added' = [u \in UserIds |-> 0]
    /\ lastOp' = Op("restart", "", [after_save |-> lastOp.op = "save"])
    /\ UNCHANGED <<now, sessionFile, userFile, pb, tasks, gigachat>>

-----------------------------------------------------------------------------
(* The bot's handlers.  The dispatcher runs one handler to its end before   *)
(* it takes the next update, so each handler is one step.                   *)

StartCommand(u) ==
    LET c == create_or_update_user(users, userFile, u, UserName, now)
        r == get_or_create_session(sessions, u, now, Held)
    IN  /\ users' = c.users
        /\ userFile' = c.file
        /\ IF c.raised
           THEN /\ lastOp' = Op("start_command", u, [raised |-> TRUE])
                /\ UNCHANGED <<sessions, lastRet, added>>
           ELSE /\ sessions' = r.sessions
                /\ lastRet' = [lastRet EXCEPT ![u] = r.session.oid]
                /\ added' = IF r.branch = "existing" THEN added ELSE [added EXCEPT ![u] = 0]
                /\ lastOp' = Op("start_command", u, [raised |-> FALSE])
        /\ UNCHANGED <<now, sessionFile, pb, tasks, gigachat>>

StatsCommand(vector_ok) ==
    /\ sessions' = cleanup_expired_sessions(sessions, now)
    /\ added' = ForgetRemoved(sessions')
    /\ lastOp' = Op("stats_command", "",
                    [raised |-> ~vector_ok, user_count |-> get_user_count(users),
                     active_sessions |-> Len(sessions')])
    /\ UNCHANGED <<now, sessionFile, users, userFile, lastRet, pb, tasks, gigachat>>

ClearCommandWithoutSave(u) ==
    LET g == get_session(sessions, u)
    IN  /\ IF g.found
           THEN sessions' = SetKey(sessions, clear_conversation_history(g.session))
           ELSE UNCHANGED sessions
        /\ lastOp' = Op("clear_command", u, [cleared |-> g.found])
        /\ UNCHANGED <<now, sessionFile, users, userFile, lastRet, added, pb, tasks, gigachat>>

ClearCommand(u) ==
    LET g == get_session(sessions, u)
    IN  /\ IF g.found
           THEN /\ sessions' = SetKey(sessions, clear_conversation_history(g.session))
                /\ sessionFile' = _save_sessions(sessions')
           ELSE UNCHANGED <<sessions, sessionFile>>
        /\ lastOp' = Op("clear_command", u, [cleared |-> g.found])
        /\ UNCHANGED <<now, users, userFile, lastRet, added, pb, tasks, gigachat>>

HandleMessage(u, query, index, index_fails, completion) ==
    LET c  == create_or_update_user(users, userFile, u, UserName, now)
        c2 == increment_message_count(c.users, c.file, u, now)
        r  == get_or_create_session(sessions, u, now, Held)
        s1 == add_message(r.session, "user", query, now)
        documents == retrieve(index, index_fails, NoneArg, RetrieverNResults)
        conversation_history == get_conversation_history(s1, HandlerHistoryLimit, FALSE)
        history_for_ai == IF Len(conversation_history) > 1
                          THEN SubSeq(conversation_history, 1, Len(conversation_history) - 1)
                          ELSE <<>>
        gen == generate(query, documents, history_for_ai, completion)
        s2 == add_message(s1, "assistant", gen.answer, now)
        sources == get_sources(documents)
        base == IF r.branch = "existing" THEN added[u] ELSE 0
        Turn(outcome, reached, replies) ==
            [outcome |-> outcome,
             history_for_ai |-> IF reached THEN history_for_ai ELSE <<>>,
             documents |-> IF reached THEN documents ELSE <<>>,
             index_failed |-> reached /\ index_fails,
             completion_failed |-> reached /\ completion.raised,
             completion_calls |-> IF reached THEN gen.calls ELSE 0,
             replies |-> replies]
    IN  /\ HasKey(sessions, u) /\ ~Expired(GetKey(sessions, u))
                => /\ GetKey(sessions, u).message_count + 2 <= MaxMessages
                   /\ Len(GetKey(sessions, u).conversation_history) + 2 <= MaxHistory
        /\ HasKey(users, u) /\ GetKey(users, u).mapping
                => GetKey(users, u).message_count < MaxUserMessages
        /\ IF c.raised \/ c2.raised
           THEN /\ users' = (IF c.raised THEN c.users ELSE c2.users)
                /\ userFile' = (IF c.raised THEN c.file ELSE c2.file)
                /\ lastOp' = Op("handle_message", u,
                                Turn("user_db_raised", FALSE, <<Apology>>))
                /\ UNCHANGED <<sessions, sessionFile, lastRet, added>>
           ELSE /\ users' = c2.users
                /\ userFile' = c2.file
                /\ lastRet' = [lastRet EXCEPT ![u] = r.session.oid]
                /\ IF gen.raised
                   THEN /\ sessions' = SetKey(r.sessions, s1)
                        /\ added' = [added EXCEPT ![u] = base + 1]
                        /\ lastOp' = Op("handle_message", u,
                                        Turn("generate_raised", TRUE, <<Apology>>))
                        /\ UNCHANGED sessionFile
                   ELSE /\ sessions' = SetKey(r.sessions, s2)
                        /\ added' = [added EXCEPT ![u] = base + 2]
                        /\ sessionFile' = _save_sessions(sessions')
                        /\ lastOp' = Op("handle_message", u,
                                        Turn("answered", TRUE,
                                             <<FullResponse(gen.answer, sources)>>))
        /\ UNCHANGED <<now, pb, tasks, gigachat>>

-----------------------------------------------------------------------------
(* The specification of the bot and its stores *)

\* The session file the bot starts on: none, or one a previous run saved
InitBotFiles ==
    {FileAbsent, FileJson(<<GoodEntry("1")>>), FileJson(<<GoodEntry("2"), GoodEntry("1")>>)}

Init ==
    /\ now = 0
    /\ \E file \in InitBotFiles : SessionManagerInit(file, 0)
    /\ \E file \in InitUserFiles : UserDatabaseInit(file)
    /\ lastOp = Boot
    /\ pb = PbIdle
    /\ tasks = <<>>
    /\ gigachat = NoToken

Next ==
    \/ Tick
    \/ \E u \in Askers : StartCommand(u)
    \/ \E ok \in BOOLEAN : StatsCommand(ok)
    \/ \E u \in UserIds : ClearCommand(u)
    \/ \E u \in Askers, q \in Queries, x \in TurnIndexes, f \in BOOLEAN, g \in GenerateOutcomes :
            HandleMessage(u, q, x, f, g)

Spec == Init /\ [][Next]_vars

-----------------------------------------------------------------------------
(* Specifications of the session store alone: a SessionManager built on a   *)
(* file, and a client calling its operations.                               *)

InitStore(files) ==
    /\ now = 0
    /\ \E file \in files : SessionManagerInit(file, 0)
    /\ UserDatabaseInit(FileAbsent)
    /\ lastOp = Boot
    /\ pb = PbIdle
    /\ tasks = <<>>
    /\ gigachat = NoToken

\* Sessions and their messages
InitSession == InitStore({FileAbsent, FileJson(<<GoodEntry("1")>>)})

NextSession ==
    \/ Tick
    \/ \E u \in UserIds : GetOrCreateSession(u)
    \/ \E u \in UserIds : DeleteSession(u)
    \/ \E u \in Askers : AddMessage(u, "user", "q")
    \/ \E u \in Askers : ClearConversationHistory(u)

SpecSession == InitSession /\ [][NextSession]_vars

\* Expiry
InitCleanup == InitStore({FileAbsent, FileJson(<<GoodEntry("1")>>)})

NextCleanup ==
    \/ Tick
    \/ \E u \in UserIds : GetOrCreateSession(u)
    \/ \E u \in UserIds : GetSession(u)
    \/ CleanupExpiredSessions
    \/ GetActiveSessionCount
    \/ GetAllUserIds

SpecCleanup == InitCleanup /\ [][NextCleanup]_vars

\* Persistence
InitPersist == InitStore(InitSessionFiles)

NextPersist ==
    \/ Tick
    \/ \E u \in Askers : GetOrCreateSession(u)
    \/ \E u \in Askers : AddMessage(u, "user", "q")
    \/ \E u \in Askers : AddMessage(u, "assistant", "a")
    \/ Save
    \/ Restart

SpecPersist == InitPersist /\ [][NextPersist]_vars

\* The time of the last activity: one user's session and every operation
\* that reads or writes it
InitActivity == InitStore({FileAbsent, FileJson(<<GoodEntry("1")>>)})

NextActivity ==
    \/ Tick
    \/ \E u \in Askers : GetOrCreateSession(u)
    \/ \E u \in Askers : GetSession(u)
    \/ \E u \in Askers : AddMessage(u, "user", "q")
    \/ \E u \in Askers : ClearConversationHistory(u)
    \/ \E u \in Askers, m \in {0, 1}, ts \in BOOLEAN : ReadConversationHistory(u, m, ts)
    \/ CleanupExpiredSessions
    \/ Save

SpecActivity == InitActivity /\ [][NextActivity]_vars

\* Two users' sessions, and a caller that passes a user_id as an integer or
\* as a string
UserIdArgs == {IntId(1), IntId(2), StrId("1"), StrId("2")}

CallerId(a) == [kind |-> "user_id", id |-> a]

\* The caller takes the id it passes next
ChooseId(a) ==
    /\ pb # CallerId(a)
    /\ pb' = CallerId(a)
    /\ lastOp' = Op("choose_id", "", <<>>)
    /\ UNCHANGED <<now, sessions, sessionFile, users, userFile, lastRet, added, tasks, gigachat>>

InitIsolation ==
    /\ now = 0
    /\ \E file \in {FileAbsent, FileJson(<<GoodEntry("2"), GoodEntry("1")>>)} :
            SessionManagerInit(file, 0)
    /\ UserDatabaseInit(FileAbsent)
    /\ lastOp = Boot
    /\ pb \in {CallerId(a) : a \in UserIdArgs}
    /\ tasks = <<>>
    /\ gigachat = NoToken

NextIsolation ==
    \/ Outlast
    \/ \E a \in UserIdArgs : ChooseId(a)
    \/ GetOrCreateSession(str(pb.id))
    \/ GetSession(str(pb.id))
    \/ DeleteSession(str(pb.id))
    \/ str(pb.id) \in Askers /\ AddMessage(str(pb.id), "user", "q")
    \/ str(pb.id) \in Askers /\ ClearConversationHistory(str(pb.id))

SpecIsolation == InitIsolation /\ [][NextIsolation]_vars

-----------------------------------------------------------------------------
(* GigaChatClient's access token.  time.time() is the clock, in ticks, and  *)
(* a number of seconds is that many times TicksPerSec ticks.                *)

SafetyMargin == 300
DefaultExpiresAt == 1800

Seconds(n) == n * TicksPerSec

\* What the OAuth server answers to a token request made at t: an error, or
\* a token and, unless the key is missing, the instant at which it expires
Lifetimes == {900, 1800}

OAuthResponses(t) ==
    {[ok |-> FALSE, access_token |-> NoneToken]}
        \cup {[ok |-> TRUE, access_token |-> Token(TRUE, t + Seconds(l))] : l \in Lifetimes}
        \cup {[ok |-> TRUE, access_token |-> Token(FALSE, 0)]}

\* [raised, requested, token, client]: whether the call raised, whether it
\* asked the server, the token returned and the client's fields afterwards
_get_access_token(g, t, response) ==
    IF g.access_token # NoneToken /\ t < g.token_expires_at
    THEN [raised |-> FALSE, requested |-> FALSE, token |-> g.access_token, client |-> g]
    ELSE IF ~response.ok
    THEN [raised |-> TRUE, requested |-> TRUE, token |-> NoneToken, client |-> g]
    ELSE LET expires_in == (IF response.access_token.reports_expiry
                            THEN response.access_token.expires_at
                            ELSE Seconds(DefaultExpiresAt)) - Seconds(SafetyMargin)
         IN  [raised |-> FALSE, requested |-> TRUE, token |-> response.access_token,
              client |-> [access_token |-> response.access_token,
                          token_expires_at |-> t + expires_in]]

MaxTokenStrides == 12

\* The clock goes on by the length of the margin
Elapse ==
    /\ now < MaxTokenStrides * Seconds(SafetyMargin)
    /\ now' = now + Seconds(SafetyMargin)
    /\ lastOp' = Op("tick", "", <<>>)
    /\ UNCHANGED <<sessions, sessionFile, users, userFile, lastRet, added, pb, tasks, gigachat>>

GetAccessToken(response) ==
    LET r == _get_access_token(gigachat, now, response)
    IN  /\ gigachat' = r.client
        /\ lastOp' = Op("_get_access_token", "",
                        [raised |-> r.raised, requested |-> r.requested, token |-> r.token])
        /\ UNCHANGED <<now, sessions, sessionFile, users, userFile, lastRet, added, pb, tasks>>

InitToken == InitStore({FileAbsent})

NextToken ==
    \/ Elapse
    \/ \E response \in OAuthResponses(now) : GetAccessToken(response)

SpecToken == InitToken /\ [][NextToken]_vars

-----------------------------------------------------------------------------
(* Claims about the session store *)

Stored(u) == GetKey(sessions, u)
StoredNext(u) == GetKey(sessions', u)

IsGetOrCreate(u) == lastOp'.op = "get_or_create_session" /\ lastOp'.user = u

\* C1: a get_or_create_session call made while now - last_activity <= T
\* returns the object the store held for the user (the one the previous
\* call returned), with a message_count that did not decrease; a call made
\* when now - last_activity > T returns another object with message_count 0
\* and an empty history, and the old object is no longer in the store.
C1_SessionIdentity ==
    [][\A u \in UserIds : (IsGetOrCreate(u) /\ HasKey(sessions, u)) =>
          IF now - Stored(u).last_activity <= TimeoutTicks
          THEN /\ HasKey(sessions', u)
               /\ lastOp'.result.oid = Stored(u).oid
               /\ StoredNext(u).oid = Stored(u).oid
               /\ lastRet[u] # 0 => lastRet'[u] = lastRet[u]
               /\ StoredNext(u).message_count >= Stored(u).message_count
               /\ lastOp'.result.message_count >= Stored(u).message_count
          ELSE /\ HasKey(sessions', u)
               /\ lastOp'.result.oid # Stored(u).oid
               /\ lastOp'.result.oid = StoredNext(u).oid
               /\ lastRet[u] # 0 => lastRet'[u] # lastRet[u]
               /\ lastOp'.result.message_count = 0
               /\ lastOp'.result.history = <<>>
               /\ StoredNext(u).message_count = 0
               /\ StoredNext(u).conversation_history = <<>>
               /\ Stored(u).oid \notin OidsOf(sessions')]_vars

\* A call after the timeout has returned a fresh object, other than the one
\* an earlier call returned
C1_Witness ==
    /\ lastOp.op = "get_or_create_session"
    /\ lastOp.result.branch = "expired"
    /\ lastOp.result.previous # 0
    /\ lastOp.result.previous # lastOp.result.oid
    /\ lastOp.result.message_count = 0

\* C2: message_count equals the number of add_message calls made on the
\* session; add_message appends exactly one entry at the end of the history
\* and raises message_count by 1; clear_conversation_history empties the
\* history and leaves message_count as it is.
C2_CountsEveryMessage ==
    /\ [](\A u \in UserIds : HasKey(sessions, u) => Stored(u).message_count = added[u])
    /\ [][\A u \in UserIds :
            /\ (lastOp'.op = "add_message" /\ lastOp'.user = u) =>
                  /\ Len(StoredNext(u).conversation_history)
                        = Len(Stored(u).conversation_history) + 1
                  /\ SubSeq(StoredNext(u).conversation_history, 1,
                            Len(Stored(u).conversation_history))
                        = Stored(u).conversation_history
                  /\ StoredNext(u).message_count = Stored(u).message_count + 1
            /\ (lastOp'.op = "clear_conversation_history" /\ lastOp'.user = u) =>
                  /\ StoredNext(u).conversation_history = <<>>
                  /\ StoredNext(u).message_count = Stored(u).message_count]_vars

\* A history cleared after two messages: the counter keeps them
C2_Witness ==
    /\ lastOp.op = "clear_conversation_history"
    /\ Stored(lastOp.user).conversation_history = <<>>
    /\ Stored(lastOp.user).message_count = 2

\* The file holds exactly the user_ids of the in-memory map, each with the
\* history and the last_activity it has in memory
FileMirrorsMemory ==
    /\ sessionFile.kind = "json"
    /\ KeySet(sessionFile.data) = KeySet(sessions)
    /\ Len(sessionFile.data) = Len(sessions)
    /\ \A u \in KeySet(sessions) :
          LET e == GetKey(sessionFile.data, u)
          IN  /\ e.mapping /\ e.has_history
              /\ e.conversation_history = Stored(u).conversation_history
              /\ e.last_activity.kind = "iso"
              /\ fromisoformat(e.last_activity) = Stored(u).last_activity

MutatingOps ==
    {"get_or_create_session", "add_message", "clear_conversation_history",
     "delete_session", "cleanup_expired_sessions", "get_active_session_count",
     "get_all_user_ids", "start_command", "stats_command", "clear_command",
     "handle_message"}

CorruptEntry(e) == ~e.mapping \/ e.last_activity.kind # "iso"

CorruptFile(file) ==
    \/ file.kind = "garbage"
    \/ file.kind = "json" /\ \E i \in 1..Len(file.data) : CorruptEntry(file.data[i])

\* C5 as stated: a SessionManager constructed on a corrupt file (no JSON, or
\* JSON with an entry that is no mapping or has no parsable last_activity)
\* starts with an empty map.
C5_CorruptFileLoadsEmpty ==
    (lastOp.op \in {"init", "restart"} /\ CorruptFile(sessionFile)) => sessions = <<>>

NotExpiredIds(ss, t) ==
    {u \in KeySet(ss) : t - GetKey(ss, u).last_activity <= TimeoutTicks}

\* C6: cleanup_expired_sessions, and get_active_session_count and
\* get_all_user_ids through it, leave in the map exactly the sessions with
\* now - last_activity <= timeout, each unchanged; the count returned is
\* their number and the ids returned are theirs.
C6_CleanupRemovesExactlyExpired ==
    [][lastOp'.op \in {"cleanup_expired_sessions", "get_active_session_count",
                       "get_all_user_ids"} =>
          /\ KeySet(sessions') = NotExpiredIds(sessions, now)
          /\ Len(sessions') = Cardinality(NotExpiredIds(sessions, now))
          /\ \A u \in KeySet(sessions') : StoredNext(u) = Stored(u)
          /\ \A u \in KeySet(sessions') :
                ~(now - StoredNext(u).last_activity > TimeoutTicks)
          /\ lastOp'.op = "get_active_session_count" =>
                lastOp'.result.value = Cardinality(NotExpiredIds(sessions, now))
          /\ lastOp'.op = "get_all_user_ids" =>
                /\ Len(lastOp'.result.value) = Cardinality(NotExpiredIds(sessions, now))
                /\ {lastOp'.result.value[i] : i \in 1..Len(lastOp'.result.value)}
                      = NotExpiredIds(sessions, now)]_vars

\* A count taken when one session had expired and another had not: the
\* expired one is gone, the other one is counted, idle for exactly the timeout
C6_Witness ==
    /\ lastOp.op = "get_active_session_count"
    /\ lastOp.result.removed = 1
    /\ lastOp.result.value = 1
    /\ \E u \in KeySet(sessions) : now - Stored(u).last_activity = TimeoutTicks

-----------------------------------------------------------------------------
(* PromptBuilder.  Strings are TLA+ strings: Len is the number of           *)
(* characters and \o is concatenation.  A relevance is a number of          *)
(* hundredths, which is what the format {relevance:.2f} prints.             *)

DefaultMaxContextLength == 4000
DefaultMaxMessages == 10

NoContext == "Kontekst otsutstvuet."
Separator == "\n---\n"

Format2f(r) ==
    LET a == IF r < 0 THEN -r ELSE r
    IN  (IF r < 0 THEN "-" ELSE "") \o ToString(a \div 100) \o "."
            \o (IF a % 100 < 10 THEN "0" ELSE "") \o ToString(a % 100)

DocText(i, doc) ==
    "Dokument " \o ToString(i) \o " (Istocnik: " \o doc.source
        \o ", Relevantnost': " \o Format2f(doc.relevance) \o "):\n" \o doc.text \o "\n"

RECURSIVE Join(_, _)
Join(parts, sep) ==
    IF parts = <<>> THEN ""
    ELSE IF Len(parts) = 1 THEN parts[1]
    ELSE parts[1] \o sep \o Join(Tail(parts), sep)

\* The loop over enumerate(documents, 1): context_parts when it ends or breaks
RECURSIVE ContextPartsSkipping(_, _, _, _, _)
ContextPartsSkipping(documents, i, context_parts, total_length, max_context_length) ==
    IF i > Len(documents) THEN context_parts
    ELSE IF total_length + Len(DocText(i, documents[i])) > max_context_length
    THEN ContextPartsSkipping(documents, i + 1, context_parts, total_length,
                              max_context_length)
    ELSE ContextPartsSkipping(documents, i + 1,
                              Append(context_parts, DocText(i, documents[i])),
                              total_length + Len(DocText(i, documents[i])),
                              max_context_length)

RECURSIVE ContextParts(_, _, _, _, _)
ContextParts(documents, i, context_parts, total_length, max_context_length) ==
    IF i > Len(documents) THEN context_parts
    ELSE IF total_length + Len(DocText(i, documents[i])) > max_context_length
    THEN context_parts
    ELSE ContextParts(documents, i + 1,
                      Append(context_parts, DocText(i, documents[i])),
                      total_length + Len(DocText(i, documents[i])),
                      max_context_length)

build_context_from_documents(documents, max_context_length) ==
    IF documents = <<>> THEN NoContext
    ELSE Join(ContextParts(documents, 1, <<>>, 0, max_context_length), Separator)

build_conversation_context(history, max_messages) ==
    IF history = <<>> THEN <<>> ELSE SliceFromMinus(history, max_messages)

UserMessage(context, query) ==
    "Kontekst iz bazy znanij:\n\n" \o context
        \o "\n\n---\n\nVopros pol'zovatelq: " \o query
        \o "\n\nOtvet' na vopros, ispol'zuq informaciu iz predostavlennogo konteksta."

\* An absent (None) or empty prompt or history is the empty string or list:
\* the code tests them for truth only.
build_messages_default_first(query, context_documents, conversation_history, system_prompt, self_system_prompt, max_context_length) ==
    LET sys_prompt == IF self_system_prompt # "" THEN self_system_prompt ELSE system_prompt
    IN  (IF sys_prompt # "" THEN <<[role |-> "system", content |-> sys_prompt]>> ELSE <<>>)
        \o (IF conversation_history # <<>>
            THEN build_conversation_context(conversation_history, DefaultMaxMessages)
            ELSE <<>>)
        \o <<[role |-> "user",
              content |-> UserMessage(
                  build_context_from_documents(context_documents, max_context_length),
                  query)]>>

build_messages_for_ai(query, context_documents, conversation_history, system_prompt, self_system_prompt, max_context_length) ==
    LET sys_prompt == IF system_prompt # "" THEN system_prompt ELSE self_system_prompt
    IN  (IF sys_prompt # "" THEN <<[role |-> "system", content |-> sys_prompt]>> ELSE <<>>)
        \o (IF conversation_history # <<>>
            THEN build_conversation_context(conversation_history, DefaultMaxMessages)
            ELSE <<>>)
        \o <<[role |-> "user",
              content |-> UserMessage(
                  build_context_from_documents(context_documents, max_context_length),
                  query)]>>

-----------------------------------------------------------------------------
(* The specification of the prompt builder: inputs drawn from bounded sets, *)
(* and one call of one of its functions on them.                            *)

DocTexts == {"", "xxxxxxxxxx"}

DocLists(n) == UNION {[1..k -> {Doc(t, "s", 90) : t \in DocTexts}] : k \in 0..n}

\* A conversation of n messages, user and assistant in turn, each with its own content
HistoryOf(n) ==
    [i \in 1..n |-> [role |-> IF i % 2 = 1 THEN "user" ELSE "assistant",
                     content |-> ToString(i), timestamp |-> isoformat(0)]]

PbInput(kind) ==
    [kind |-> kind, stage |-> "input", fn |-> "",
     max_context_length |-> DefaultMaxContextLength, documents |-> <<>>,
     history |-> <<>>, max_messages |-> DefaultMaxMessages, include_timestamps |-> FALSE,
     query |-> "", system_prompt |-> "", self_system_prompt |-> "", result |-> <<>>]

PbInputs ==
    {[PbInput("documents") EXCEPT !.max_context_length = m, !.documents = d] :
        m \in 0..MaxBudget, d \in DocLists(MaxDocs)}
    \cup
    {[PbInput("history") EXCEPT !.history = HistoryOf(n), !.max_messages = m,
                                !.include_timestamps = ts] :
        n \in 0..MaxHistoryLen, m \in 0..MaxHistoryLen, ts \in BOOLEAN}
    \cup
    {[PbInput("messages") EXCEPT !.query = "q?", !.documents = d,
                                 !.history = StripTimestamps(HistoryOf(n)),
                                 !.system_prompt = a, !.self_system_prompt = b] :
        d \in DocLists(1), n \in 0..MaxHistoryLen, a \in {"", "A"}, b \in {"", "B"}}

PbDone(fn, result) == pb' = [pb EXCEPT !.stage = "done", !.fn = fn, !.result = result]

BuildContextFromDocuments ==
    /\ pb.stage = "input" /\ pb.kind = "documents"
    /\ PbDone("build_context_from_documents",
              build_context_from_documents(pb.documents, pb.max_context_length))
    /\ UNCHANGED sessionVars

BuildConversationContext ==
    /\ pb.stage = "input" /\ pb.kind = "history"
    /\ PbDone("build_conversation_context",
              build_conversation_context(pb.history, pb.max_messages))
    /\ UNCHANGED sessionVars

GetConversationHistory ==
    /\ pb.stage = "input" /\ pb.kind = "history"
    /\ PbDone("get_conversation_history",
              get_conversation_history(
                  [UserContext("1", 1, 0) EXCEPT !.conversation_history = pb.history],
                  pb.max_messages, pb.include_timestamps))
    /\ UNCHANGED sessionVars

BuildMessagesForAi ==
    /\ pb.stage = "input" /\ pb.kind = "messages"
    /\ PbDone("build_messages_for_ai",
              build_messages_for_ai(pb.query, pb.documents, pb.history, pb.system_prompt,
                                    pb.self_system_prompt, pb.max_context_length))
    /\ UNCHANGED sessionVars

InitPrompt ==
    /\ now = 0
    /\ SessionManagerInit(FileAbsent, 0)
    /\ UserDatabaseInit(FileAbsent)
    /\ lastOp = Boot
    /\ pb \in PbInputs
    /\ tasks = <<>>
    /\ gigachat = NoToken

NextPrompt ==
    \/ BuildContextFromDocuments
    \/ BuildConversationContext
    \/ GetConversationHistory
    \/ BuildMessagesForAi

SpecPrompt == InitPrompt /\ [][NextPrompt]_vars

-----------------------------------------------------------------------------
(* Claims about the prompt builder *)

Called(fn) == pb.stage = "done" /\ pb.fn = fn

Min(a, b) == IF a < b THEN a ELSE b

\* C7 as stated: the context built from a non-empty list of documents is at
\* most max_context_length plus one separator long; the context built from
\* the empty list is the placeholder.
C7_ContextWithinBudget ==
    Called("build_context_from_documents") =>
        IF pb.documents = <<>>
        THEN pb.result = NoContext
        ELSE Len(pb.result) <= pb.max_context_length + Len(Separator)

RECURSIVE PrefixLength(_, _)
PrefixLength(documents, k) ==
    IF k = 0 THEN 0 ELSE PrefixLength(documents, k - 1) + Len(DocText(k, documents[k]))

LongestFittingPrefix(documents, budget) ==
    CHOOSE k \in 0..Len(documents) :
        /\ PrefixLength(documents, k) <= budget
        /\ \A j \in 0..Len(documents) : PrefixLength(documents, j) <= budget => j <= k

\* C8: the context holds the rendered blocks of the longest prefix d1..dk of
\* the documents whose blocks have total length <= max_context_length, each
\* in full and numbered 1..k in input order, joined by the separator, and
\* no document after the first one that does not fit.
C8_GreedyPrefix ==
    (Called("build_context_from_documents") /\ pb.documents # <<>>) =>
        LET k == LongestFittingPrefix(pb.documents, pb.max_context_length)
        IN  pb.result = Join([i \in 1..k |-> DocText(i, pb.documents[i])], Separator)

\* Of three documents the second does not fit, so only the first is
\* rendered, though the third would fit beside it
C8_Witness ==
    /\ Called("build_context_from_documents")
    /\ Len(pb.documents) = 3
    /\ LongestFittingPrefix(pb.documents, pb.max_context_length) = 1
    /\ Len(DocText(1, pb.documents[1])) + Len(DocText(3, pb.documents[3]))
          <= pb.max_context_length
    /\ pb.result = DocText(1, pb.documents[1])

Contains(text, sub) ==
    \E i \in 1..(Len(text) - Len(sub) + 1) : SubSeq(text, i, i + Len(sub) - 1) = sub

\* C9: build_messages_for_ai returns one system message, present iff the
\* argument or the builder's default is a non-empty prompt, the argument
\* first; then the last min(len(history), 10) history messages in their
\* order; then one user message holding the rendered context and the query.
C9_MessageSequence ==
    Called("build_messages_for_ai") =>
        LET sys == IF pb.system_prompt # "" THEN pb.system_prompt ELSE pb.self_system_prompt
            s == IF sys # "" THEN 1 ELSE 0
            h == Min(Len(pb.history), DefaultMaxMessages)
            r == pb.result
        IN  /\ Len(r) = s + h + 1
            /\ s = 1 => r[1] = [role |-> "system", content |-> sys]
            /\ \A i \in 1..Len(r) : r[i].role = "system" => (i = 1 /\ s = 1)
            /\ \A i \in 1..h : r[s + i] = pb.history[Len(pb.history) - h + i]
            /\ r[Len(r)].role = "user"
            /\ Contains(r[Len(r)].content,
                        build_context_from_documents(pb.documents, pb.max_context_length))
            /\ Contains(r[Len(r)].content, pb.query)

\* A call with both prompts, a document and a history longer than ten
C9_Witness ==
    /\ Called("build_messages_for_ai")
    /\ pb.system_prompt # "" /\ pb.self_system_prompt # ""
    /\ pb.documents # <<>>
    /\ Len(pb.history) > DefaultMaxMessages
    /\ Len(pb.result) = DefaultMaxMessages + 2

LastMin(history, n) == LastN(history, Min(n, Len(history)))

\* C10 as stated: build_conversation_context(history, max_messages) and
\* get_conversation_history(max_messages) return the last
\* min(max_messages, len(history)) entries in their order, for every
\* max_messages >= 0.
C10_LastMaxMessages ==
    /\ Called("build_conversation_context") =>
          pb.result = LastMin(pb.history, pb.max_messages)
    /\ Called("get_conversation_history") =>
          pb.result = IF pb.include_timestamps
                      THEN LastMin(pb.history, pb.max_messages)
                      ELSE StripTimestamps(LastMin(pb.history, pb.max_messages))

-----------------------------------------------------------------------------
(* The specification of the retriever: an index, a call and its result *)

Distances == {10, 30, 60, 130}
Thresholds == {0, 70, 100}

\* The index's ranking for the query: best (smallest distance) first
Indexes(n) ==
    LET ranked(k) == {d \in [1..k -> Distances] : \A i \in 1..(k - 1) : d[i] <= d[i + 1]}
    IN  UNION {{[i \in 1..k |-> Match("t" \o ToString(i), "s" \o ToString(i % 2), d[i])] :
                    d \in ranked(k)} : k \in 0..n}

NResultsArgs == {NoneArg} \cup {Given(n) : n \in 0..MaxNResults}

RetrieveInputs ==
    {[kind |-> "index", stage |-> "input", fn |-> "", index |-> x, fails |-> f,
      n_results |-> n, self_n_results |-> RetrieverNResults, relevance_threshold |-> t,
      result |-> <<>>] :
        x \in Indexes(MaxIndexSize), f \in BOOLEAN, n \in NResultsArgs, t \in Thresholds}

Retrieve ==
    /\ pb.stage = "input" /\ pb.kind = "index"
    /\ PbDone("retrieve", retrieve(pb.index, pb.fails, pb.n_results, pb.self_n_results))
    /\ UNCHANGED sessionVars

RetrieveWithThreshold ==
    /\ pb.stage = "input" /\ pb.kind = "index"
    /\ PbDone("retrieve_with_threshold",
              retrieve_with_threshold(pb.index, pb.fails, pb.relevance_threshold,
                                      pb.n_results, pb.self_n_results))
    /\ UNCHANGED sessionVars

InitRetrieve ==
    /\ now = 0
    /\ SessionManagerInit(FileAbsent, 0)
    /\ UserDatabaseInit(FileAbsent)
    /\ lastOp = Boot
    /\ pb \in RetrieveInputs
    /\ tasks = <<>>
    /\ gigachat = NoToken

NextRetrieve ==
    \/ Retrieve
    \/ RetrieveWithThreshold

SpecRetrieve == InitRetrieve /\ [][NextRetrieve]_vars

-----------------------------------------------------------------------------
(* Claims about the retriever *)

\* The positions of seq whose element satisfies Keep, in increasing order
KeptPositions(seq, Keep(_)) == {i \in 1..Len(seq) : Keep(seq[i])}

\* The n-th smallest member of a set of numbers
Nth(S, n) == CHOOSE i \in S : Cardinality({j \in S : j <= i}) = n

\* C11: retrieve_with_threshold(query, threshold, n) returns exactly the
\* elements of retrieve(query, n) whose relevance is >= threshold, in the
\* relative order retrieve gave them, and nothing else.
C11_ThresholdFilter ==
    Called("retrieve_with_threshold") =>
        LET base == retrieve(pb.index, pb.fails, pb.n_results, pb.self_n_results)
            keep == KeptPositions(base, LAMBDA d : d.relevance >= pb.relevance_threshold)
        IN  /\ Len(pb.result) = Cardinality(keep)
            /\ \A j \in 1..Len(pb.result) : pb.result[j] = base[Nth(keep, j)]

\* Relevance 0.9 and 0.4 with threshold 0.7: only the first is returned
C11_Witness ==
    /\ Called("retrieve_with_threshold")
    /\ ~pb.fails /\ pb.n_results = NoneArg
    /\ Len(pb.index) = 2 /\ pb.index[1].distance = 10 /\ pb.index[2].distance = 60
    /\ pb.relevance_threshold = 70
    /\ Len(pb.result) = 1 /\ pb.result[1].relevance = 90 /\ pb.result[1].text = pb.index[1].text

\* C12 as stated: for every n_results the caller passes, 0 included, retrieve
\* returns at most n_results documents, in the index's order, each with
\* relevance = 1 - distance; with n_results omitted the default applies.
C12_AtMostNResults ==
    Called("retrieve") =>
        LET limit == IF pb.n_results.given THEN pb.n_results.value ELSE pb.self_n_results
        IN  /\ Len(pb.result) <= limit
            /\ Len(pb.result) <= Len(pb.index)
            /\ \A i \in 1..Len(pb.result) :
                  /\ pb.result[i].text = pb.index[i].text
                  /\ pb.result[i].distance = pb.index[i].distance
                  /\ pb.result[i].relevance = 100 - pb.index[i].distance

-----------------------------------------------------------------------------
(* Claims about a turn *)

Turned == lastOp.op = "handle_message"

C14_CompletionFailureNotRecovered ==
    [][(lastOp'.op = "handle_message" /\ lastOp'.result.completion_failed) =>
          LET u == lastOp'.user
              before == IF HasKey(sessions, u) /\ ~Expired(Stored(u))
                        THEN Stored(u).conversation_history ELSE <<>>
              after == StoredNext(u).conversation_history
          IN  /\ lastOp'.result.outcome = "generate_raised"
              /\ lastOp'.result.completion_calls = 1
              /\ lastOp'.result.replies = <<Apology>>
              /\ sessionFile' = sessionFile
              /\ Len(after) = Len(before) + 1
              /\ SubSeq(after, 1, Len(before)) = before
              /\ after[Len(after)].role = "user"]_vars

\* A failed turn after an answered one: the file holds the answered turn
\* only, the history ends with the unanswered question
C14_Witness ==
    /\ Turned
    /\ lastOp.result.completion_failed
    /\ lastOp.result.replies = <<Apology>>
    /\ LET h == Stored(lastOp.user).conversation_history
       IN  Len(h) >= 1 /\ h[Len(h)].role = "user"
    /\ ~FileMirrorsMemory

-----------------------------------------------------------------------------
(* DocumentLoader.chunk_text.  A text is a string; s[i] is Char(s, i).      *)

Char(s, i) == SubSeq(s, i, i)

\* The characters str.strip() removes, as far as the texts here hold them
Whitespace == {" ", "\t", "\n"}

RECURSIVE lstrip(_)
lstrip(s) ==
    IF s # "" /\ Char(s, 1) \in Whitespace THEN lstrip(SubSeq(s, 2, Len(s))) ELSE s

RECURSIVE rstrip(_)
rstrip(s) ==
    IF s # "" /\ Char(s, Len(s)) \in Whitespace THEN rstrip(SubSeq(s, 1, Len(s) - 1)) ELSE s

strip(s) == rstrip(lstrip(s))

\* str.find, counted from 1: the first position where sep occurs, 0 if none
find(text, sep) ==
    LET at == {i \in 1..(Len(text) - Len(sep) + 1) : SubSeq(text, i, i + Len(sep) - 1) = sep}
    IN  IF at = {} THEN 0 ELSE CHOOSE i \in at : \A j \in at : i <= j

\* str.split(sep) for a non-empty sep
RECURSIVE split(_, _)
split(text, sep) ==
    LET i == find(text, sep)
    IN  IF i = 0 THEN <<text>>
        ELSE <<SubSeq(text, 1, i - 1)>> \o split(SubSeq(text, i + Len(sep), Len(text)), sep)

separators == <<"\n\n", "\n", ". ", "! ", "? ", "; ", ", ", " ">>

\* Windows that step by chunk_size, whatever the overlap
WindowsWithoutOverlap(text, chunk_size, overlap) ==
    [k \in 1..((Len(text) + chunk_size - 1) \div chunk_size) |->
        SubSeq(text, (k - 1) * chunk_size + 1,
               IF k * chunk_size < Len(text) THEN k * chunk_size ELSE Len(text))]

\* for i in range(0, len(text), chunk_size - overlap): text[i:i + chunk_size]
Windows(text, chunk_size, overlap) ==
    LET step == chunk_size - overlap
    IN  [k \in 1..((Len(text) + step - 1) \div step) |->
            SubSeq(text, (k - 1) * step + 1,
                   IF (k - 1) * step + chunk_size < Len(text)
                   THEN (k - 1) * step + chunk_size ELSE Len(text))]

RECURSIVE split_recursive(_, _, _, _)
RECURSIVE Accumulate(_, _, _, _, _, _, _, _)

\* The loop over the parts of one separator level: j is the part at hand,
\* result and current are the loop's variables
Accumulate(parts, j, result, current, sep, next_seps, chunk_size, overlap) ==
    IF j > Len(parts)
    THEN IF current # "" THEN Append(result, strip(current)) ELSE result
    ELSE LET part == parts[j]
             part_with_sep == IF part # parts[Len(parts)] THEN part \o sep ELSE part
             flushed == IF current # "" THEN Append(result, strip(current)) ELSE result
         IN  IF Len(current) + Len(part_with_sep) <= chunk_size
             THEN Accumulate(parts, j + 1, result, current \o part_with_sep,
                             sep, next_seps, chunk_size, overlap)
             ELSE IF Len(part_with_sep) > chunk_size
             THEN Accumulate(parts, j + 1,
                             flushed \o (IF next_seps # <<>>
                                         THEN split_recursive(part_with_sep, next_seps,
                                                              chunk_size, overlap)
                                         ELSE Windows(part_with_sep, chunk_size, overlap)),
                             "", sep, next_seps, chunk_size, overlap)
             ELSE Accumulate(parts, j + 1, flushed, part_with_sep,
                             sep, next_seps, chunk_size, overlap)

split_recursive(text, seps, chunk_size, overlap) ==
    IF text = "" THEN <<>>
    ELSE IF Len(text) <= chunk_size THEN <<text>>
    ELSE LET present == {k \in 1..Len(seps) : find(text, seps[k]) > 0}
         IN  IF present = {}
             THEN Windows(text, chunk_size, overlap)
             ELSE LET k == CHOOSE i \in present : \A j \in present : i <= j
                  IN  Accumulate(split(text, seps[k]), 1, <<>>, "", seps[k],
                                 SubSeq(seps, k + 1, Len(seps)), chunk_size, overlap)

chunk_text(text, chunk_size, overlap) ==
    IF Len(text) <= chunk_size THEN <<text>>
    ELSE SelectSeq(split_recursive(text, separators, chunk_size, overlap),
                   LAMBDA c : strip(c) # "")

-----------------------------------------------------------------------------
(* The specification of the chunker: a text, a chunk size and an overlap    *)
(* smaller than it, and one call of chunk_text on them.                     *)

Alphabet == {"a", ".", " ", "\n", "\t"}

RECURSIVE TextsOf(_)
TextsOf(n) ==
    IF n = 0 THEN {""}
    ELSE LET shorter == TextsOf(n - 1)
         IN  shorter \cup {t \o c : t \in shorter, c \in Alphabet}

Letters == "abcdefghijklmnopqrstuvwxyz"

\* A text of n letters and no separator, no two neighbours alike
RECURSIVE LongText(_)
LongText(n) ==
    IF n = 0 THEN "" ELSE LongText(n - 1) \o Char(Letters, ((n - 1) % Len(Letters)) + 1)

ChunkInput(text, chunk_size, overlap) ==
    [kind |-> "text", stage |-> "input", fn |-> "", text |-> text,
     chunk_size |-> chunk_size, overlap |-> overlap, result |-> <<>>]

\* Short texts over the alphabet, and longer texts without a separator
ChunkInputs(text_len, chunk_size, long_len, long_chunk) ==
    {ChunkInput(t, c, o) : t \in TextsOf(text_len), c \in 1..chunk_size, o \in 0..(chunk_size - 1)}
    \cup
    {ChunkInput(LongText(n), c, o) : n \in 0..long_len, c \in 1..long_chunk, o \in 0..(long_chunk - 1)}

ChunkText ==
    /\ pb.stage = "input" /\ pb.kind = "text"
    /\ PbDone("chunk_text", chunk_text(pb.text, pb.chunk_size, pb.overlap))
    /\ UNCHANGED sessionVars

InitChunk ==
    /\ now = 0
    /\ SessionManagerInit(FileAbsent, 0)
    /\ UserDatabaseInit(FileAbsent)
    /\ lastOp = Boot
    /\ pb \in ChunkInputs(MaxTextLen, MaxChunkSize, MaxLongLen, MaxLongChunk)
    /\ tasks = <<>>
    /\ gigachat = NoToken
    /\ pb.overlap < pb.chunk_size

NextChunk == ChunkText

SpecChunk == InitChunk /\ [][NextChunk]_vars

-----------------------------------------------------------------------------
(* Claims about the chunker *)

Chunked == Called("chunk_text")


\* C15 as stated: a text no longer than chunk_size gives exactly one chunk,
\* the text with its leading and trailing whitespace trimmed.
C15_ShortTextOneTrimmedChunk ==
    (Chunked /\ Len(pb.text) <= pb.chunk_size) => pb.result = <<strip(pb.text)>>

\* C16 as stated: no chunk is empty or whitespace-only, no chunk has leading
\* or trailing whitespace, and the empty text gives no chunk.
C16_ChunksTrimmedAndNonEmpty ==
    Chunked =>
        /\ \A i \in 1..Len(pb.result) : pb.result[i] # "" /\ strip(pb.result[i]) = pb.result[i]
        /\ pb.text = "" => pb.result = <<>>

\* The characters of s that are not whitespace, in order
RECURSIVE Ink(_)
Ink(s) ==
    IF s = "" THEN ""
    ELSE (IF Char(s, 1) \in Whitespace THEN "" ELSE Char(s, 1)) \o Ink(SubSeq(s, 2, Len(s)))

RECURSIVE Concat(_)
Concat(strs) == IF strs = <<>> THEN "" ELSE Head(strs) \o Concat(Tail(strs))

\* a can be read off b from left to right, skipping characters of b
RECURSIVE IsSubsequence(_, _)
IsSubsequence(a, b) ==
    IF a = "" THEN TRUE
    ELSE IF b = "" THEN FALSE
    ELSE IF Char(a, 1) = Char(b, 1)
    THEN IsSubsequence(SubSeq(a, 2, Len(a)), SubSeq(b, 2, Len(b)))
    ELSE IsSubsequence(a, SubSeq(b, 2, Len(b)))

\* C17 as stated: every non-whitespace character of the input, separator
\* characters included, appears in the chunks, in input order (the chunks
\* may repeat characters where they overlap).
C17_NoCharacterDropped ==
    Chunked => IsSubsequence(Ink(pb.text), Ink(Concat(pb.result)))

SeparatorFree(text) == \A k \in 1..Len(separators) : find(text, separators[k]) = 0

\* text[i*(chunk_size-overlap) : i*(chunk_size-overlap)+chunk_size] for
\* i = 0, 1, ... while the start is inside the text
ExpectedWindows(text, chunk_size, overlap) ==
    LET step == chunk_size - overlap
        n == Cardinality({i \in 0..Len(text) : i * step < Len(text)})
    IN  [k \in 1..n |->
            SubSeq(text, (k - 1) * step + 1,
                   IF (k - 1) * step + chunk_size <= Len(text)
                   THEN (k - 1) * step + chunk_size ELSE Len(text))]

HardSliced == Chunked /\ SeparatorFree(pb.text) /\ Len(pb.text) > pb.chunk_size

\* C18 as stated: a separator-free text longer than chunk_size is cut into
\* exactly the windows text[i*step : i*step + chunk_size], step being
\* chunk_size - overlap, for every start inside the text.
C18_HardSliceWindows ==
    HardSliced => pb.result = ExpectedWindows(pb.text, pb.chunk_size, pb.overlap)

HasInk(s) == \E i \in 1..Len(s) : Char(s, i) \notin Whitespace

\* C18, amended: the chunks are those windows, in order, that hold a
\* character other than whitespace; every window whose end is inside the
\* text has length chunk_size, and two consecutive windows share the
\* overlap characters of the first one's end.
C18_HardSliceInkedWindows ==
    HardSliced =>
        LET w == ExpectedWindows(pb.text, pb.chunk_size, pb.overlap)
            step == pb.chunk_size - pb.overlap
        IN  /\ pb.result = SelectSeq(w, HasInk)
            /\ \A k \in 1..Len(w) :
                  (k - 1) * step + pb.chunk_size <= Len(pb.text) => Len(w[k]) = pb.chunk_size
            /\ \A k \in 1..(Len(w) - 1) :
                  Len(w[k]) = pb.chunk_size /\ Len(w[k + 1]) >= pb.overlap =>
                      SubSeq(w[k], step + 1, pb.chunk_size) = SubSeq(w[k + 1], 1, pb.overlap)

\* chunk_size 5, overlap 1 and twelve letters: chunks of 5, 5 and 4
\* characters, each starting with the last character of the one before
C18_Witness ==
    /\ HardSliced
    /\ pb.chunk_size = 5 /\ pb.overlap = 1 /\ Len(pb.text) = 12
    /\ Len(pb.result) = 3
    /\ Len(pb.result[1]) = 5 /\ Len(pb.result[2]) = 5 /\ Len(pb.result[3]) = 4
    /\ Char(pb.result[1], 5) = Char(pb.result[2], 1)
    /\ Char(pb.result[2], 5) = Char(pb.result[3], 1)

\* The chunks occur in the text one after the other: each at a position not
\* before the position of the one before it
RECURSIVE OccurInOrder(_, _, _)
OccurInOrder(text, chunks, from) ==
    IF chunks = <<>> THEN TRUE
    ELSE LET c == Head(chunks)
             at == {i \in from..(Len(text) - Len(c) + 1) : SubSeq(text, i, i + Len(c) - 1) = c}
         IN  /\ at # {}
             /\ OccurInOrder(text, Tail(chunks), CHOOSE i \in at : \A j \in at : i <= j)

\* C19 as stated: every chunk is at most chunk_size long and is a
\* contiguous slice of the input, and the chunks come in the order in which
\* their content occurs in the input.
C19_BoundedContiguousSlices ==
    Chunked =>
        /\ \A i \in 1..Len(pb.result) : Len(pb.result[i]) <= pb.chunk_size
        /\ OccurInOrder(pb.text, pb.result, 1)

-----------------------------------------------------------------------------
(* Claims about reading the session store *)

\* C20: get_session(user_id) only reads: the session map and every session
\* in it, last_activity included, are what they were; it returns None for
\* an absent user_id and the stored session for a present one, also when
\* that session has expired.
C20_GetSessionIsPureRead ==
    [][lastOp'.op = "get_session" =>
          LET u == lastOp'.user
          IN  /\ sessions' = sessions
              /\ sessionFile' = sessionFile
              /\ lastOp'.result.found = HasKey(sessions, u)
              /\ HasKey(sessions, u) => lastOp'.result.session = Stored(u)]_vars

\* A lookup that returned a session which had already expired, and left it
\* in the map
C20_Witness ==
    /\ lastOp.op = "get_session"
    /\ lastOp.result.found
    /\ Expired(lastOp.result.session)
    /\ HasKey(sessions, lastOp.user) /\ Stored(lastOp.user) = lastOp.result.session

-----------------------------------------------------------------------------
(* handle_message as a coroutine.  The event loop runs a coroutine until it *)
(* awaits, and may then run another one: a handler is suspended at its      *)
(* await statements and nowhere else.  The statements of handle_message, in *)
(* program order; the last two are the except block.                        *)

handle_message_steps ==
    <<"send_action", "create_or_update_user", "increment_message_count",
      "get_or_create_session", "add_user_message", "retrieve",
      "get_conversation_history", "generate", "add_assistant_message", "save",
      "get_sources", "reply_text", "log_sent", "reply_apology", "return">>

StepAt(name) == CHOOSE i \in 1..Len(handle_message_steps) : handle_message_steps[i] = name

\* A handler that awaits the completion service too
handle_message_awaits_generate == {"send_action", "generate", "reply_text", "reply_apology"}

\* The statements that are awaited
handle_message_awaits == {"send_action", "reply_text", "reply_apology"}

Ended == 0

NoObject == <<>>

\* A coroutine of handle_message for one update: its position, its local
\* variables and the statements it has executed; k is the length of the
\* history the query was appended to, saved_len the length of the history
\* the save wrote
NewTask(user, completion) ==
    [user |-> user, completion |-> completion, pc |-> 1, session |-> 0,
     object |-> NoObject, k |-> 0, documents |-> <<>>, history_for_ai |-> <<>>,
     answer |-> "",
     saved_len |-> 0, replies |-> <<>>, trace |-> <<>>]

\* The object the local variable session refers to: the one in the map
\* while it is there, else the coroutine's own view of it
HeldObject(st) ==
    IF \E j \in 1..Len(st.sessions) : st.sessions[j].oid = st.task.session
    THEN st.sessions[CHOOSE j \in 1..Len(st.sessions) : st.sessions[j].oid = st.task.session]
    ELSE st.task.object

PutObject(st, obj) ==
    IF \E j \in 1..Len(st.sessions) : st.sessions[j].oid = st.task.session
    THEN [st EXCEPT !.sessions = SetKey(@, obj), !.task.object = obj,
                    !.added = [@ EXCEPT ![obj.user_id] = @ + 1]]
    ELSE [st EXCEPT !.task.object = obj]

\* One statement of handle_message, on the stores and the coroutine
HandleMessageStep(st, taken) ==
    LET t == st.task
        name == handle_message_steps[t.pc]
        next == [st EXCEPT !.task.trace = Append(@, name), !.task.pc = @ + 1]
        raise == [st EXCEPT !.task.trace = Append(@, name),
                            !.task.pc = StepAt("reply_apology")]
        end == [st EXCEPT !.task.trace = Append(@, name), !.task.pc = Ended,
                          !.task.object = NoObject]
    IN  CASE name = "send_action" -> next
          [] name = "create_or_update_user" ->
                LET c == create_or_update_user(st.users, st.userFile, t.user, UserName, now)
                IN  [(IF c.raised THEN raise ELSE next) EXCEPT
                        !.users = c.users, !.userFile = c.file]
          [] name = "increment_message_count" ->
                LET c == increment_message_count(st.users, st.userFile, t.user, now)
                IN  [(IF c.raised THEN raise ELSE next) EXCEPT
                        !.users = c.users, !.userFile = c.file]
          [] name = "get_or_create_session" ->
                LET r == get_or_create_session(st.sessions, t.user, now, taken)
                IN  [next EXCEPT !.sessions = r.sessions,
                                 !.task.session = r.session.oid,
                                 !.task.object = r.session,
                                 !.lastRet = [@ EXCEPT ![t.user] = r.session.oid],
                                 !.added = IF r.branch = "existing" THEN @
                                           ELSE [@ EXCEPT ![t.user] = 0]]
          [] name = "add_user_message" ->
                PutObject([next EXCEPT !.task.k = Len(HeldObject(st).conversation_history)],
                          add_message(HeldObject(st), "user", "q", now))
          [] name = "retrieve" ->
                [next EXCEPT !.task.documents =
                    retrieve(<<Match("t", "s", 10)>>, FALSE, NoneArg, RetrieverNResults)]
          [] name = "get_conversation_history" ->
                LET conversation_history ==
                        get_conversation_history(HeldObject(st), HandlerHistoryLimit, FALSE)
                IN  [next EXCEPT !.task.history_for_ai =
                        IF Len(conversation_history) > 1
                        THEN SubSeq(conversation_history, 1, Len(conversation_history) - 1)
                        ELSE <<>>]
          [] name = "generate" ->
                LET gen == generate("q", t.documents, t.history_for_ai, t.completion)
                IN  IF gen.raised THEN raise ELSE [next EXCEPT !.task.answer = gen.answer]
          [] name = "add_assistant_message" ->
                PutObject(next, add_message(HeldObject(st), "assistant", t.answer, now))
          [] name = "save" ->
                [next EXCEPT !.sessionFile = _save_sessions(st.sessions),
                             !.task.saved_len = Len(HeldObject(st).conversation_history)]
          [] name = "get_sources" -> next
          [] name = "reply_text" ->
                [next EXCEPT !.task.replies =
                    Append(@, FullResponse(t.answer, get_sources(t.documents)))]
          [] name = "log_sent" -> end
          [] name = "reply_apology" -> [next EXCEPT !.task.replies = Append(@, Apology)]
          [] name = "return" -> end

\* The coroutine runs from where it is up to and including its next await,
\* or to its end
RECURSIVE RunToAwait(_, _)
RunToAwait(st, taken) ==
    LET name == handle_message_steps[st.task.pc]
        after == HandleMessageStep(st, taken)
    IN  IF after.task.pc = Ended \/ name \in handle_message_awaits
        THEN after
        ELSE RunToAwait(after, taken)

MaxUpdates == 2

TaskOids == {tasks[i].session : i \in 1..Len(tasks)} \ {0}

\* An update with a text message arrives: the dispatcher creates the
\* coroutine of its handler
Dispatch(u, completion) ==
    /\ Len(tasks) < MaxUpdates
    /\ tasks' = Append(tasks, NewTask(u, completion))
    /\ lastOp' = Op("dispatch", u, <<>>)
    /\ UNCHANGED <<now, sessions, sessionFile, users, userFile, lastRet, added, pb, gigachat>>

\* The event loop runs the i-th coroutine
Resume(i) ==
    LET st == RunToAwait([sessions |-> sessions, sessionFile |-> sessionFile,
                          users |-> users, userFile |-> userFile, lastRet |-> lastRet,
                          added |-> added, task |-> tasks[i]],
                         Held \cup TaskOids)
    IN  /\ tasks[i].pc # Ended
        /\ sessions' = st.sessions
        /\ sessionFile' = st.sessionFile
        /\ users' = st.users
        /\ userFile' = st.userFile
        /\ lastRet' = st.lastRet
        /\ added' = st.added
        /\ tasks' = [tasks EXCEPT ![i] = st.task]
        /\ lastOp' = Op("resume", tasks[i].user, [task |-> i])
        /\ UNCHANGED <<now, pb, gigachat>>

\* The session file the bot starts on: none, or one with a conversation as
\* long as the handler's history limit
InitDispatchFiles ==
    {FileAbsent, FileJson(<<SessionEntry("1", HistoryOf(HandlerHistoryLimit), isoformat(0))>>)}

InitDispatch == InitStore(InitDispatchFiles)

\* The completion service may fail in the turns of the users who ask most;
\* the turns of the others are answered
NextDispatch ==
    \/ Outlast
    \/ \E u \in UserIds, g \in GenerateOutcomes : (u \in Askers \/ ~g.raised) /\ Dispatch(u, g)
    \/ \E i \in 1..Len(tasks) : Resume(i)
    \/ \E u \in Askers : ClearCommand(u)
    \/ StatsCommand(TRUE)

SpecDispatch == InitDispatch /\ [][NextDispatch]_vars

-----------------------------------------------------------------------------
(* Claims about the /clear command *)

\* C21 as stated: /clear reports "history cleared" if and only if the user
\* had a session with a non-empty conversation_history before the call; in
\* every case the history is empty afterwards, message_count and
\* last_activity of the session are unchanged, no session is created, and
\* when something was cleared the file holds an empty history for the user.
C21_ClearReportsHadHistory ==
    [][lastOp'.op = "clear_command" =>
          LET u == lastOp'.user
              had_history == HasKey(sessions, u) /\ Stored(u).conversation_history # <<>>
          IN  /\ lastOp'.result.cleared <=> had_history
              /\ HasKey(sessions', u) <=> HasKey(sessions, u)
              /\ HasKey(sessions', u) =>
                    /\ StoredNext(u).conversation_history = <<>>
                    /\ StoredNext(u).message_count = Stored(u).message_count
                    /\ StoredNext(u).last_activity = Stored(u).last_activity
              /\ lastOp'.result.cleared =>
                    /\ sessionFile'.kind = "json"
                    /\ HasKey(sessionFile'.data, u)
                    /\ GetKey(sessionFile'.data, u).conversation_history = <<>>]_vars

-----------------------------------------------------------------------------
(* Claims about the message counter *)

\* C24 as stated: in every session the store holds, the sessions rebuilt
\* from the file at startup included, message_count is at least the number
\* of messages in conversation_history.
C24_CountCoversHistory ==
    \A i \in 1..Len(sessions) :
        sessions[i].message_count >= Len(sessions[i].conversation_history)

-----------------------------------------------------------------------------
(* Claims about the placeholder of the context block *)

RenderedDocuments(documents, max_context_length) ==
    Len(ContextParts(documents, 1, <<>>, 0, max_context_length))

\* C27 as stated: build_context_from_documents returns the placeholder
\* whenever no document is rendered, for the empty list and for a list whose
\* first block alone exceeds max_context_length; it never returns the empty
\* string.
C27_PlaceholderWhenNothingRendered ==
    Called("build_context_from_documents") =>
        /\ RenderedDocuments(pb.documents, pb.max_context_length) = 0 => pb.result = NoContext
        /\ pb.result # ""

-----------------------------------------------------------------------------
(* Claims about the last window of a hard slice *)

AllDistinct(s) == \A i, j \in 1..Len(s) : Char(s, i) = Char(s, j) => i = j

Occurs(c, s) == \E i \in 1..Len(s) : Char(s, i) = c

\* C29 as stated: in the hard-slice path, for 0 <= overlap < chunk_size,
\* every chunk after the first holds a character that the chunk before it
\* does not hold.  The texts looked at have no character twice, so that a
\* character of a chunk names its position in the text.
C29_NoRedundantChunk ==
    (HardSliced /\ AllDistinct(pb.text)) =>
        \A k \in 2..Len(pb.result) :
            \E i \in 1..Len(pb.result[k]) : ~Occurs(Char(pb.result[k], i), pb.result[k - 1])

-----------------------------------------------------------------------------
(* Claims about the time of the last activity *)

Touches(u) ==
    /\ lastOp'.user = u
    /\ lastOp'.op \in {"get_or_create_session", "add_message"}

IsFresh(ctx, t) ==
    /\ ctx.state = "active"
    /\ ctx.conversation_history = <<>>
    /\ ctx.metadata = <<>>
    /\ ctx.message_count = 0
    /\ ctx.created_at = t /\ ctx.last_activity = t

\* C23: get_or_create_session on a session that has not expired and
\* add_message set last_activity to the current time; get_session,
\* clear_conversation_history, cleanup_expired_sessions, save and
\* get_conversation_history leave it as it was.  A session whose last touch
\* is at most the timeout ago is returned again and is not removed, however
\* long ago it was created; a session created by get_or_create_session is
\* active, has an empty history, no metadata and message_count 0.
C23_LastActivityRefreshedByTouchOnly ==
    [][\A u \in UserIds :
          /\ (HasKey(sessions, u) /\ Touches(u)) =>
                /\ HasKey(sessions', u)
                /\ StoredNext(u).last_activity = now'
                /\ now - Stored(u).last_activity <= TimeoutTicks =>
                      StoredNext(u).oid = Stored(u).oid
          /\ (HasKey(sessions, u) /\ HasKey(sessions', u) /\ ~Touches(u)) =>
                StoredNext(u).last_activity = Stored(u).last_activity
          /\ (HasKey(sessions, u) /\ now - Stored(u).last_activity <= TimeoutTicks
                    /\ lastOp'.op = "cleanup_expired_sessions") =>
                (HasKey(sessions', u) /\ StoredNext(u) = Stored(u))
          /\ (lastOp'.op = "get_or_create_session" /\ lastOp'.user = u
                    /\ lastOp'.result.branch # "existing") =>
                IsFresh(StoredNext(u), now')]_vars

\* A session created more than the timeout ago and touched since is
\* returned again, the same object, with last_activity set to now
C23_Witness ==
    /\ lastOp.op = "get_or_create_session"
    /\ lastOp.result.branch = "existing"
    /\ lastOp.result.previous = lastOp.result.oid
    /\ now - Stored(lastOp.user).created_at > TimeoutTicks
    /\ Stored(lastOp.user).last_activity = now
    /\ Stored(lastOp.user).message_count > 0

-----------------------------------------------------------------------------
(* Claims about the isolation of users *)

\* The key of a user_id: the decimal digits of the integer, or the string
KeyOf(a) == IF a.type = "int" THEN CHOOSE u \in UserIds : u = ToString(a.int) ELSE a.str

OthersKept(u) ==
    /\ \A v \in UserIds \ {u} : HasKey(sessions', v) <=> HasKey(sessions, v)
    /\ \A v \in KeySet(sessions) \ {u} : StoredNext(v) = Stored(v)
    /\ KeySet(sessions') \subseteq KeySet(sessions) \cup {u}

StoreOps ==
    {"get_or_create_session", "get_session", "delete_session", "add_message",
     "clear_conversation_history"}

\* C28: get_or_create_session(u), get_session(u), delete_session(u),
\* add_message on u's session and the clearing of u's history do not add,
\* remove or change the session of another user_id; delete_session of an
\* absent user_id changes nothing; the map holds at most one session per
\* user_id; and the integer n and the string of its digits address the same
\* session.
C28_CrossUserIsolation ==
    /\ [](\A i, j \in 1..Len(sessions) : sessions[i].user_id = sessions[j].user_id => i = j)
    /\ [][lastOp'.op \in StoreOps =>
            LET u == KeyOf(pb.id)
            IN  /\ lastOp'.user = u
                /\ OthersKept(u)
                /\ (lastOp'.op = "delete_session" /\ ~HasKey(sessions, u)) =>
                      sessions' = sessions
                /\ lastOp'.op = "delete_session" => ~HasKey(sessions', u)
                /\ lastOp'.op = "get_session" =>
                      /\ lastOp'.result.found = HasKey(sessions, u)
                      /\ HasKey(sessions, u) => lastOp'.result.session = Stored(u)
                /\ (lastOp'.op = "get_or_create_session" /\ HasKey(sessions, u)
                        /\ ~Expired(Stored(u))) =>
                      lastOp'.result.oid = Stored(u).oid]_vars

\* The session the file gave for "1" is removed by delete_session(1), the
\* integer, while the other user's session, with its history, stays
C28_Witness ==
    /\ lastOp.op = "delete_session"
    /\ pb.id = IntId(1)
    /\ lastOp.user = "1"
    /\ sessionFile.kind = "json" /\ HasKey(sessionFile.data, "1")
    /\ ~HasKey(sessions, "1")
    /\ HasKey(sessions, "2") /\ Len(Stored("2").conversation_history) = 2

-----------------------------------------------------------------------------
(* Claims about the access token *)

\* C30 as stated: _get_access_token returns the cached token without a
\* request only while the time is before the instant the OAuth response
\* reported (expires_at) minus the margin of 300 seconds; from that instant
\* on the next call requests a new token, so no cached token is used past
\* its reported expiry.  A failed request raises and leaves the cached
\* token and its expiry as they were.
C30_TokenCachedUntilReportedExpiry ==
    [][lastOp'.op = "_get_access_token" =>
          LET cached == gigachat.access_token
              fresh == /\ cached # NoneToken
                       /\ cached.reports_expiry =>
                             now < cached.expires_at - Seconds(SafetyMargin)
                       /\ ~cached.reports_expiry => now < gigachat.token_expires_at
          IN  /\ ~lastOp'.result.requested =>
                    /\ fresh
                    /\ lastOp'.result.token = cached
                    /\ cached.reports_expiry => now < cached.expires_at
              /\ (cached # NoneToken /\ cached.reports_expiry
                      /\ now >= cached.expires_at - Seconds(SafetyMargin)) =>
                    lastOp'.result.requested
              /\ lastOp'.result.raised =>
                    (lastOp'.result.requested /\ gigachat' = gigachat)]_vars

-----------------------------------------------------------------------------
(* Claims about the turns of the coroutines *)

Pos(trace, name) ==
    IF \E i \in 1..Len(trace) : trace[i] = name
    THEN CHOOSE i \in 1..Len(trace) : trace[i] = name
    ELSE 0

Did(t, name) == Pos(t.trace, name) > 0

TurnOrder ==
    <<"add_user_message", "retrieve", "generate", "add_assistant_message", "save",
      "reply_text">>

\* C22: in handle_message the query is appended, the documents retrieved,
\* the completion made, the answer appended and the sessions saved in this
\* order and without a suspension between them: whenever the event loop
\* can run another handler, no coroutine is between its append of the query
\* and its save (a coroutine whose turn failed has left the try block);
\* the history the save writes is the one the query was appended to plus
\* the query and the answer; the reply is sent after the save.
C22_TurnRunsUnsuspended ==
    \A i \in 1..Len(tasks) :
        LET t == tasks[i]
        IN  /\ \A a \in 1..(Len(TurnOrder) - 1) :
                  Did(t, TurnOrder[a + 1]) =>
                      /\ Did(t, TurnOrder[a])
                      /\ Pos(t.trace, TurnOrder[a]) < Pos(t.trace, TurnOrder[a + 1])
            /\ (Did(t, "add_user_message") /\ ~Did(t, "save")) => Did(t, "reply_apology")
            /\ Did(t, "save") => t.saved_len = t.k + 2
            /\ t.replies # <<>> => (Did(t, "save") \/ Did(t, "reply_apology"))

\* Two coroutines of one user are in flight, both suspended at the reply:
\* the second turn was appended to the history the first one saved
C22_Witness ==
    /\ Len(tasks) = 2
    /\ tasks[1].user = tasks[2].user
    /\ tasks[1].pc = StepAt("log_sent") /\ tasks[2].pc = StepAt("log_sent")
    /\ tasks[1].saved_len = 2
    /\ tasks[2].k = 2 /\ tasks[2].saved_len = 4

\* C25 as stated: after any sequence of turns of a user, answered or failed,
\* and of /clear commands, the roles in the stored conversation_history
\* alternate, starting with user.
C25_RolesAlternate ==
    \A i \in 1..Len(sessions) :
        \A j \in 1..Len(sessions[i].conversation_history) :
            sessions[i].conversation_history[j].role
                = IF j % 2 = 1 THEN "user" ELSE "assistant"

\* C26 as stated: the history handed to the completion step is the most
\* recent min(10, k) of the k messages that preceded the query in the
\* session, in order, without the query.
C26_HistoryHandedToCompletion ==
    [][\A i \in 1..Len(tasks) :
          (~Did(tasks[i], "generate") /\ Did(tasks'[i], "generate")) =>
              LET u == tasks[i].user
                  preceding == IF HasKey(sessions, u) /\ ~Expired(Stored(u))
                               THEN StripTimestamps(Stored(u).conversation_history)
                               ELSE <<>>
              IN  tasks'[i].history_for_ai = LastMin(preceding, HandlerHistoryLimit)]_vars

====
